---- MODULE Spec2Model ----
(***************************************************************************)
(* Model of the bionicpro reports pipeline                                 *)
(* (airflow/dags/bionicpro_reports_dag.py) and of the reports API          *)
(* (backend/app.py): the incremental, watermark based extraction of CRM    *)
(* customers into the warehouse, the delete-and-recompute refresh of the   *)
(* daily telemetry mart, the scheduling of the DAG's runs and tasks, and   *)
(* the access checks of GET /reports.                                      *)
(*                                                                         *)
(* Time is counted in minutes since 1970-01-01T00:00:00.  The wall clock   *)
(* only moves forward and at most one task instance of each task is in     *)
(* flight (max_active_runs=1).  Every call to a store may raise; a call    *)
(* that raises has no effect on the store.                                 *)
(***************************************************************************)
EXTENDS Integers, Sequences, FiniteSets, Bags, TLC

\* ------------------------------------------------------------ constants
\* timedelta(minutes=5): the forward overlap of the extraction window.
OverlapMinutes == 5
\* timedelta(days=1), and the length of a calendar day of toDate().
DayMinutes == 1440

\* --------------------------------------------------------------- bounds
\* The clock starts at midnight of day StartDay and stops at day MaxDay.
StartDay == 1
MaxDay == 2
\* Minute ticks keep the clock within the first minutes of a day.
MaxMinuteOfDay == 5
\* Task instances of extract_load_crm that are started.
MaxRuns == 2
\* Upserts the CRM writers make.
MaxUpserts == 3
\* Rows that arrive in telemetry_events.
MaxEvents == 2
\* Task instances of refresh_mart that are started.
MaxRefreshes == 3

\* DAG runs that the scheduler or a manual trigger creates.
MaxDagRuns == 2

\* Steps by which the clock moves between two observations of it.
MinuteSteps == {3, 5}

\* ----------------------------------------------------------------- data
Customers == {"c1", "c2"}

\* What a CRM writer can put in the descriptive columns of a customer.
Profiles ==
    { [full_name |-> "Alex Ivanov", email |-> "alex@example.com", country |-> "RU"],
      [full_name |-> "Alex Petrov", email |-> "alex@example.com", country |-> "DE"] }

\* One row of customers (Postgres) and of bionicpro.crm_customers.
CustomerRow(c, p, t) ==
    [customer_id |-> c, full_name |-> p.full_name, email |-> p.email,
     country |-> p.country, updated_at |-> t]

Range(s) == {s[i] : i \in DOMAIN s}

MaxOf(S) == CHOOSE x \in S : \A y \in S : y <= x

\* ---------------------------------------------------------- conversions
\* datetime.isoformat() of a naive datetime: "<date>T<time of day>".
IsoFormat(t) == <<t \div DayMinutes, t % DayMinutes>>

\* dateutil.parser.isoparse of such a string.
IsoParse(s) == s[1] * DayMinutes + s[2]

\* The Variable CRM_WATERMARK was never set.
Unset == <<>>

\* default_var of Variable.get("CRM_WATERMARK"): "1970-01-01T00:00:00".
EpochSentinel == <<0, 0>>

VARIABLES
    now,            \* the wall clock (datetime.utcnow(), now())
    customers,      \* table customers of the CRM (Postgres)
    crm_customers,  \* table bionicpro.crm_customers, in insertion order
    CRM_WATERMARK,  \* the Airflow Variable of that name
    e_pc,           \* position of the extract_load_crm task instance
    wm,             \* its local wm
    now_,           \* its local now_
    upper,          \* its local upper
    rows,           \* its local rows
    runs,           \* extract_load_crm task instances started so far
    failed_at,      \* history: the step at which the instance raised
    wm_start,       \* history: CRM_WATERMARK when the instance started
    copy_start,     \* history: crm_customers when the instance started
    wm_writes,      \* history: Variable.set calls the instance completed
    seen,           \* history: the customers the instance's query could see
    late,           \* history: customers committed behind the watermark
    since_read,     \* history: customers committed since the instance's query
    upserts,        \* upserts the CRM writers made so far
    changed,        \* history: a customer changed since the latest source read
    prev,           \* history: the instance before this one, if the source is as it read it
    telemetry_events,      \* table bionicpro.telemetry_events, a bag of rows
    user_daily_telemetry,  \* table bionicpro.user_daily_telemetry
    r_pc,           \* position of the refresh_mart task instance
    days_back,      \* its parameter days_back
    start_dt,       \* its local start_dt
    end_dt,         \* its local end_dt
    refreshes,      \* refresh_mart task instances started so far
    r_failed_at,    \* history: the step at which the instance raised
    today,          \* history: the date of the clock when the instance started
    mart_start,     \* history: user_daily_telemetry when the instance started
    last,           \* history: how the latest ended instance of refresh_mart ended
    response,       \* what the latest call of get_report answered
    dag_runs        \* the DAG runs created so far, with their task instances

extract_vars ==
    <<e_pc, wm, now_, upper, rows, runs, failed_at, wm_start, copy_start,
      wm_writes, seen, prev>>

mart_vars ==
    <<telemetry_events, user_daily_telemetry, r_pc, days_back, start_dt, end_dt,
      refreshes, r_failed_at, today, mart_start, last>>

vars ==
    <<now, customers, crm_customers, CRM_WATERMARK, extract_vars, late, since_read,
      upserts, changed, mart_vars, response, dag_runs>>

\* Variable.get("CRM_WATERMARK", default_var=...)
VariableGet(default_var) ==
    IF CRM_WATERMARK = Unset THEN default_var ELSE CRM_WATERMARK

\* The persisted watermark as a time.
Watermark == IsoParse(VariableGet(EpochSentinel))

\* The lower end of the window left out: every row up to hi is read again.
SelectDeltaNoLowerBound(tbl, lo, hi) ==
    {r \in tbl : r.updated_at <= hi}

\* The upper end of the window taken as open.
SelectDeltaOpenUpper(tbl, lo, hi) ==
    {r \in tbl : r.updated_at > lo /\ r.updated_at < hi}

\* The lower end of the window taken as closed.
SelectDeltaClosedLower(tbl, lo, hi) ==
    {r \in tbl : r.updated_at >= lo /\ r.updated_at <= hi}

\* WHERE updated_at > %s AND updated_at <= %s
SelectDelta(tbl, lo, hi) ==
    {r \in tbl : r.updated_at > lo /\ r.updated_at <= hi}

\* ORDER BY updated_at ASC: every order of the rows the clause allows.
OrderByUpdatedAt(S) ==
    {s \in [1..Cardinality(S) -> S] :
        /\ \A i, j \in DOMAIN s : i # j => s[i] # s[j]
        /\ \A i, j \in DOMAIN s : i < j => s[i].updated_at <= s[j].updated_at}

\* max(r[-1] for r in rows)
MaxUpdated(rs) == MaxOf({rs[i].updated_at : i \in DOMAIN rs})

\* The window closed at now_, without the overlap.
UpperBoundNoOverlap(t) == t

\* upper = now_ + timedelta(minutes=5)
UpperBound(t) == t + OverlapMinutes

\* The watermark set to upper in either branch.
NewWatermarkAlwaysUpper(rs, up) == IsoFormat(up)

\* The value the instance passes to Variable.set.
NewWatermark(rs, up) ==
    IF rs # <<>> THEN IsoFormat(MaxUpdated(rs)) ELSE IsoFormat(up)

\* ------------------------------------------------------- refresh_mart
\* int(Variable.get("AGG_DAYS_BACK", default_var="2")) when the Variable is unset.
AGG_DAYS_BACK == 2

\* Values of the parameter days_back.
DaysBackValues == {0, 1, AGG_DAYS_BACK}

\* Telemetry arrives with ts some minutes behind the clock
\* (now - timedelta(minutes=random.randint(1, 10), ...)).
TelemetryLags == {1}

Prostheses == {"p1"}

\* response_ms, is_error and battery_level of an event.
Payloads ==
    { [response_ms |-> 100, is_error |-> 0, battery_level |-> 88],
      [response_ms |-> 300, is_error |-> 1, battery_level |-> 80] }

TelemetryEvent(t, c, p, v) ==
    [ts |-> t, customer_id |-> c, prosthesis_id |-> p, response_ms |-> v.response_ms,
     is_error |-> v.is_error, battery_level |-> v.battery_level]

\* toDate(ts), and datetime.date()
ToDate(t) == t \div DayMinutes

\* start_dt.strftime("%Y-%m-%d")
StrfDate(d) == <<d>>

\* toDate('<date>')
ToDateOfString(str) == str[1]

\* f"{start_dt} 00:00:00"
MidnightString(d) == <<d, 0>>

\* toDateTime('<date> <time of day>')
ToDateTime(str) == str[1] * DayMinutes + str[2]

\* end_dt = datetime.utcnow().date() + timedelta(days=1)
EndDt(t) == ToDate(t) + 1

\* The window counted back from today instead of from end_dt.
StartDtFromToday(e, db) == (e - 1) - db

\* start_dt = end_dt - timedelta(days=days_back)
StartDt(e, db) == e - db

\* The lower end of the DELETE taken as open.
InDeleteRangeOpenLower(d, s, e) ==
    d > ToDateOfString(StrfDate(s)) /\ d < ToDateOfString(StrfDate(e))

\* The DELETE ending a day early: the rows of today are left in place.
InDeleteRangeUpToYesterday(d, s, e) ==
    d >= ToDateOfString(StrfDate(s)) /\ d < ToDateOfString(StrfDate(e)) - 1

\* The DELETE without its lower end: every row before end_dt goes.
InDeleteRangeNoLowerBound(d, s, e) ==
    d < ToDateOfString(StrfDate(e))

\* DELETE WHERE event_date >= toDate(%(s)s) AND event_date < toDate(%(e)s)
InDeleteRange(d, s, e) ==
    d >= ToDateOfString(StrfDate(s)) /\ d < ToDateOfString(StrfDate(e))

\* WHERE e.ts >= toDateTime(%(s)s) AND e.ts < toDateTime(%(e)s)
InSelectRange(t, s, e) ==
    t >= ToDateTime(MidnightString(s)) /\ t < ToDateTime(MidnightString(e))

\* The rows of a bag, each as often as the bag holds it, in some order.
RECURSIVE SeqOfBag(_)
SeqOfBag(B) ==
    IF BagToSet(B) = {} THEN <<>>
    ELSE LET x == CHOOSE y \in BagToSet(B) : TRUE
         IN  <<x>> \o SeqOfBag(B (-) SetToBag({x}))

RECURSIVE SumSeq(_)
SumSeq(s) == IF s = <<>> THEN 0 ELSE Head(s) + SumSeq(Tail(s))

RECURSIVE Gcd(_, _)
Gcd(a, b) == IF b = 0 THEN a ELSE Gcd(b, a % b)

\* A Float64 quotient n / d, kept exact as a fraction in lowest terms.
Ratio(n, d) == <<n \div Gcd(n, d), d \div Gcd(n, d)>>

\* A sequence with its i-th element removed.
RemoveAt(s, i) == SubSeq(s, 1, i - 1) \o SubSeq(s, i + 1, Len(s))

RECURSIVE SortedAscending(_)
SortedAscending(s) ==
    IF s = <<>> THEN <<>>
    ELSE LET i == CHOOSE j \in DOMAIN s : \A k \in DOMAIN s : s[j] <= s[k]
         IN  <<s[i]>> \o SortedAscending(RemoveAt(s, i))

\* avg(x)
Avg(s) == Ratio(SumSeq(s), Len(s))

\* The level 0.95 of quantile(0.95), as QuantileNum / QuantileDen.
QuantileNum == 19
QuantileDen == 20

\* quantile(0.95)(x) over a sample small enough to be kept whole: the
\* value at position 0.95 * (n - 1) of the sorted sample, interpolated
\* between its two neighbours.
Quantile95(s) ==
    LET srt == SortedAscending(s)
        pos == QuantileNum * (Len(s) - 1)
        left == (pos \div QuantileDen) + 1
        frac == pos % QuantileDen
    IN  IF left = Len(s) THEN Ratio(srt[left], 1)
        ELSE Ratio(srt[left] * (QuantileDen - frac) + srt[left + 1] * frac, QuantileDen)

\* The group of an event: GROUP BY event_date, customer_id, prosthesis_id.
GroupKey(ev) == <<ToDate(ev.ts), ev.customer_id, ev.prosthesis_id>>

\* The groups of the events the SELECT reads.
GroupKeys(tel, s, e) ==
    {GroupKey(ev) : ev \in {x \in BagToSet(tel) : InSelectRange(x.ts, s, e)}}

\* The events of one group with equal rows of telemetry_events taken as one.
GroupEventsDistinct(tel, k, s, e) ==
    SelectSeq(SeqOfBag(SetToBag(BagToSet(tel))),
              LAMBDA ev : InSelectRange(ev.ts, s, e) /\ GroupKey(ev) = k)

\* The events of one group the SELECT reads.
GroupEvents(tel, k, s, e) ==
    SelectSeq(SeqOfBag(tel), LAMBDA ev : InSelectRange(ev.ts, s, e) /\ GroupKey(ev) = k)

\* The columns of c an event without a match in crm_customers gets.
NoMatch == [full_name |-> "", country |-> ""]

\* ANY LEFT JOIN bionicpro.crm_customers c ON c.customer_id = e.customer_id:
\* every way to give each customer one of its rows of crm_customers.
JoinChoices(crm) ==
    {j \in [Customers -> {[full_name |-> r.full_name, country |-> r.country] :
                              r \in Range(crm)} \cup {NoMatch}] :
        \A c \in Customers :
            IF \E r \in Range(crm) : r.customer_id = c
            THEN \E r \in Range(crm) :
                    /\ r.customer_id = c
                    /\ j[c] = [full_name |-> r.full_name, country |-> r.country]
            ELSE j[c] = NoMatch}

\* One row of the SELECT of insert_sql.
MartRow(k, evs, c, t) ==
    [event_date |-> k[1], customer_id |-> k[2], prosthesis_id |-> k[3],
     full_name |-> c.full_name, country |-> c.country,
     events |-> Len(evs),
     err_events |-> SumSeq([i \in DOMAIN evs |-> evs[i].is_error]),
     avg_response_ms |-> Avg([i \in DOMAIN evs |-> evs[i].response_ms]),
     p95_response_ms |-> Quantile95([i \in DOMAIN evs |-> evs[i].response_ms]),
     avg_battery_level |-> Avg([i \in DOMAIN evs |-> evs[i].battery_level]),
     last_update |-> t]

\* The join taken as an inner join: no row for an event without a match.
RecomputeInnerJoin(tel, j, s, e, t) ==
    {MartRow(k, GroupEvents(tel, k, s, e), j[k[2]], t) :
        k \in {g \in GroupKeys(tel, s, e) : j[g[2]] # NoMatch}}

\* The rows the SELECT of insert_sql returns at time t under the join j.
Recompute(tel, j, s, e, t) ==
    {MartRow(k, GroupEvents(tel, k, s, e), j[k[2]], t) : k \in GroupKeys(tel, s, e)}

\* The body of an answer that carries no report.
NoBody == [customer_id |-> "", full_name |-> "", country |-> "", days |-> <<>>]

\* raise HTTPException(status_code=..., detail=...)
HTTPException(status_code, detail) ==
    [status |-> status_code, detail |-> detail, body |-> NoBody]

\* get_report was never called.
NoResponse == [status |-> 0, detail |-> "", body |-> NoBody]

\* No instance of extract_load_crm has run before this one.
NoPrevious == [ok |-> FALSE, fresh |-> FALSE, n_rows |-> 0]

\* No instance of refresh_mart has ended yet.
NoRefresh ==
    [ok |-> FALSE, days_back |-> 0, start_dt |-> 0, end_dt |-> 0, n_events |-> 0,
     n_copy |-> 0, emptied |-> {}, repeat |-> FALSE, gap |-> {}]

InitWith(copy) ==
    /\ now = StartDay * DayMinutes
    /\ customers = {}
    /\ crm_customers = copy
    /\ CRM_WATERMARK = Unset
    /\ e_pc = "idle"
    /\ wm = 0
    /\ now_ = 0
    /\ upper = 0
    /\ rows = <<>>
    /\ runs = 0
    /\ failed_at = "none"
    /\ wm_start = Unset
    /\ copy_start = <<>>
    /\ wm_writes = 0
    /\ seen = {}
    /\ late = {}
    /\ since_read = {}
    /\ upserts = 0
    /\ changed = FALSE
    /\ prev = NoPrevious
    /\ telemetry_events = EmptyBag
    /\ user_daily_telemetry = {}
    /\ r_pc = "idle"
    /\ days_back = 0
    /\ start_dt = 0
    /\ end_dt = 0
    /\ refreshes = 0
    /\ r_failed_at = "none"
    /\ today = 0
    /\ mart_start = {}
    /\ last = NoRefresh
    /\ response = NoResponse
    /\ dag_runs = <<>>

\* The pipeline before its first run: nothing extracted, nothing aggregated.
Init == InitWith(<<>>)

\* ---------------------------------------------------------- environment
\* The wall clock moves forward by d minutes.
Tick(d) ==
    /\ (now % DayMinutes) + d <= MaxMinuteOfDay
    /\ now' = now + d
    /\ UNCHANGED <<dag_runs, response, mart_vars, upserts, changed, customers, crm_customers, CRM_WATERMARK, extract_vars, late, since_read>>

\* A CRM writer upserts customer c: INSERT ... VALUES (..., now())
\* ON CONFLICT (customer_id) DO UPDATE.
CrmUpsert(c, p) ==
    /\ upserts < MaxUpserts
    /\ upserts' = upserts + 1
    /\ customers' = {r \in customers : r.customer_id # c} \cup {CustomerRow(c, p, now)}
    /\ late' = IF now <= Watermark THEN late \cup {c} ELSE late \ {c}
    /\ since_read' = IF e_pc \in {"insert", "set"} THEN since_read \cup {c} ELSE since_read
    /\ changed' = (changed \/ e_pc \in {"insert", "set", "done"} \/ (e_pc = "query" /\ prev.ok))
    /\ UNCHANGED <<dag_runs, response, mart_vars, now, crm_customers, CRM_WATERMARK, extract_vars>>

\* ----------------------------------------------------- extract_load_crm
\* What the next instance remembers of the instance that ends here, when
\* that one succeeded and no customer changed since its source read:
\* whether it started a pipeline that had never extracted, and how many
\* rows it appended.
Previous ==
    IF e_pc = "done" /\ ~changed
    THEN [ok |-> TRUE, fresh |-> wm_start = Unset /\ copy_start = <<>>, n_rows |-> Len(rows)]
    ELSE NoPrevious

\* wm_raw = Variable.get(...); wm = isoparse(wm_raw); now_ = utcnow();
\* upper = now_ + timedelta(minutes=5)
ReadWatermark ==
    /\ e_pc \in {"idle", "done", "failed"}
    /\ runs < MaxRuns
    /\ runs' = runs + 1
    /\ wm' = IsoParse(VariableGet(EpochSentinel))
    /\ now_' = now
    /\ upper' = UpperBound(now)
    /\ rows' = <<>>
    /\ e_pc' = "query"
    /\ failed_at' = "none"
    /\ wm_start' = CRM_WATERMARK
    /\ copy_start' = crm_customers
    /\ wm_writes' = 0
    /\ seen' = {}
    /\ prev' = Previous
    /\ changed' = FALSE
    /\ since_read' = {}
    /\ UNCHANGED <<dag_runs, response, mart_vars, upserts, now, customers, crm_customers, CRM_WATERMARK, late>>

\* Variable.get raises: the task instance fails before it read anything.
ReadWatermarkFail ==
    /\ e_pc \in {"idle", "done", "failed"}
    /\ runs < MaxRuns
    /\ runs' = runs + 1
    /\ wm' = 0
    /\ now_' = 0
    /\ upper' = 0
    /\ rows' = <<>>
    /\ e_pc' = "failed"
    /\ failed_at' = "get"
    /\ wm_start' = CRM_WATERMARK
    /\ copy_start' = crm_customers
    /\ wm_writes' = 0
    /\ seen' = {}
    /\ prev' = Previous
    /\ changed' = FALSE
    /\ since_read' = {}
    /\ UNCHANGED <<dag_runs, response, mart_vars, upserts, now, customers, crm_customers, CRM_WATERMARK, late>>

\* rows = hook.get_records(sql, parameters=(wm, upper))
QuerySource ==
    /\ e_pc = "query"
    /\ \E rs \in OrderByUpdatedAt(SelectDelta(customers, wm, upper)) :
          /\ rows' = rs
          /\ e_pc' = IF rs # <<>> THEN "insert" ELSE "set"
    /\ seen' = {[row |-> r, late |-> r.customer_id \in late] : r \in customers}
    /\ prev' = IF changed THEN NoPrevious ELSE prev
    /\ changed' = FALSE
    /\ since_read' = {}
    /\ UNCHANGED <<dag_runs, response, mart_vars, upserts, now, customers, crm_customers, CRM_WATERMARK, wm, now_, upper,
                   runs, failed_at, wm_start, copy_start, wm_writes, late>>

\* hook.get_records raises.
QuerySourceFail ==
    /\ e_pc = "query"
    /\ e_pc' = "failed"
    /\ failed_at' = "query"
    /\ UNCHANGED <<dag_runs, response, mart_vars, upserts, changed, now, customers, crm_customers, CRM_WATERMARK, wm, now_, upper,
                   rows, runs, wm_start, prev, copy_start, wm_writes, seen, late, since_read>>

\* cli.execute("INSERT INTO bionicpro.crm_customers ... VALUES", rows)
InsertRows ==
    /\ e_pc = "insert"
    /\ crm_customers' = crm_customers \o rows
    /\ e_pc' = "set"
    /\ UNCHANGED <<dag_runs, response, mart_vars, upserts, changed, now, customers, CRM_WATERMARK, wm, now_, upper, rows, runs,
                   failed_at, wm_start, prev, copy_start, wm_writes, seen, late, since_read>>

\* The exception of the insert is caught and the task goes on.
InsertRowsFailSwallowed ==
    /\ e_pc = "insert"
    /\ e_pc' = "set"
    /\ failed_at' = "insert"
    /\ UNCHANGED <<dag_runs, response, mart_vars, upserts, changed, now, customers, crm_customers, CRM_WATERMARK, wm, now_, upper,
                   rows, runs, wm_start, prev, copy_start, wm_writes, seen, late, since_read>>

\* ch_client() or cli.execute raises.
InsertRowsFail ==
    /\ e_pc = "insert"
    /\ e_pc' = "failed"
    /\ failed_at' = "insert"
    /\ UNCHANGED <<dag_runs, response, mart_vars, upserts, changed, now, customers, crm_customers, CRM_WATERMARK, wm, now_, upper,
                   rows, runs, wm_start, prev, copy_start, wm_writes, seen, late, since_read>>

\* Variable.set("CRM_WATERMARK", ...), the last statement of either branch.
SetWatermark ==
    /\ e_pc = "set"
    /\ CRM_WATERMARK' = NewWatermark(rows, upper)
    /\ wm_writes' = wm_writes + 1
    /\ e_pc' = "done"
    /\ late' = late \cup
          {c \in since_read :
              \E r \in customers :
                  r.customer_id = c /\ r.updated_at <= IsoParse(NewWatermark(rows, upper))}
    /\ UNCHANGED <<dag_runs, response, mart_vars, upserts, changed, now, customers, crm_customers, wm, now_, upper, rows, runs,
                   failed_at, wm_start, prev, copy_start, seen, since_read>>

\* Variable.set raises.
SetWatermarkFail ==
    /\ e_pc = "set"
    /\ e_pc' = "failed"
    /\ failed_at' = "set"
    /\ UNCHANGED <<dag_runs, response, mart_vars, upserts, changed, now, customers, crm_customers, CRM_WATERMARK, wm, now_, upper,
                   rows, runs, wm_start, prev, copy_start, wm_writes, seen, late, since_read>>

\* ------------------------------------------------------- environment
\* The clock passes into the next day.
TickDay ==
    /\ ToDate(now) < MaxDay
    /\ now' = now + DayMinutes
    /\ UNCHANGED <<dag_runs, response, customers, crm_customers, CRM_WATERMARK, extract_vars, late,
                   since_read, upserts, changed, mart_vars>>

\* seed_telemetry, the task upstream of refresh_mart, inserts an event of
\* customer c into bionicpro.telemetry_events.
IngestTelemetry(c, p, lag, v) ==
    /\ r_pc \in {"idle", "done", "failed"}
    /\ BagCardinality(telemetry_events) < MaxEvents
    /\ telemetry_events' = telemetry_events (+) SetToBag({TelemetryEvent(now - lag, c, p, v)})
    /\ UNCHANGED <<dag_runs, response, now, customers, crm_customers, CRM_WATERMARK, extract_vars, late,
                   since_read, upserts, changed, user_daily_telemetry, r_pc, days_back,
                   start_dt, end_dt, refreshes, r_failed_at, today, mart_start,
                   last>>

\* ------------------------------------------------------- refresh_mart
\* How the instance that just ended is remembered: whether it succeeded,
\* its window, how many rows telemetry_events and crm_customers held (both
\* only grow), the dates its DELETE emptied, whether it repeated a
\* successful instance on the same window and the same data, and the dates
\* that the instance before it had emptied without filling them again.
Ended(ok, emptied) ==
    [ok |-> ok, days_back |-> days_back, start_dt |-> start_dt, end_dt |-> end_dt,
     n_events |-> BagCardinality(telemetry_events), n_copy |-> Len(crm_customers),
     emptied |-> emptied,
     repeat |-> /\ ok
                /\ last.ok
                /\ last.start_dt = start_dt
                /\ last.end_dt = end_dt
                /\ last.n_events = BagCardinality(telemetry_events)
                /\ last.n_copy = Len(crm_customers),
     gap |-> IF ok /\ ~last.ok /\ last.days_back = days_back THEN last.emptied ELSE {}]

\* The dates of the rows an instance's DELETE removed.
EmptiedDates == {r.event_date : r \in mart_start \ user_daily_telemetry}

\* cli = ch_client(); end_dt = ...; start_dt = ...
ComputeWindow(db) ==
    /\ r_pc \in {"idle", "done", "failed"}
    /\ refreshes < MaxRefreshes
    /\ refreshes' = refreshes + 1
    /\ days_back' = db
    /\ end_dt' = EndDt(now)
    /\ start_dt' = StartDt(EndDt(now), db)
    /\ r_pc' = "delete"
    /\ r_failed_at' = "none"
    /\ today' = ToDate(now)
    /\ mart_start' = user_daily_telemetry
    /\ UNCHANGED <<dag_runs, response, now, customers, crm_customers, CRM_WATERMARK, extract_vars, late,
                   since_read, upserts, changed, telemetry_events, user_daily_telemetry, last>>

\* The DELETE is left out: the task goes straight to the INSERT.
DeleteWindowLeftOut ==
    /\ r_pc = "delete"
    /\ r_pc' = "insert"
    /\ UNCHANGED <<dag_runs, response, now, customers, crm_customers, CRM_WATERMARK, extract_vars, late,
                   since_read, upserts, changed, telemetry_events, user_daily_telemetry,
                   days_back, start_dt, end_dt, refreshes, r_failed_at, today,
                   mart_start, last>>

\* cli.execute("ALTER TABLE bionicpro.user_daily_telemetry DELETE WHERE ...")
DeleteWindow ==
    /\ r_pc = "delete"
    /\ user_daily_telemetry' =
          {r \in user_daily_telemetry : ~InDeleteRange(r.event_date, start_dt, end_dt)}
    /\ r_pc' = "insert"
    /\ UNCHANGED <<dag_runs, response, now, customers, crm_customers, CRM_WATERMARK, extract_vars, late,
                   since_read, upserts, changed, telemetry_events, days_back, start_dt, end_dt,
                   refreshes, r_failed_at, today, mart_start, last>>

\* The exception of the DELETE is caught and the task goes on.
DeleteWindowFailSwallowed ==
    /\ r_pc = "delete"
    /\ r_pc' = "insert"
    /\ r_failed_at' = "delete"
    /\ UNCHANGED <<dag_runs, response, now, customers, crm_customers, CRM_WATERMARK, extract_vars, late,
                   since_read, upserts, changed, telemetry_events, user_daily_telemetry,
                   days_back, start_dt, end_dt, refreshes, today, mart_start, last>>

\* The DELETE raises.
DeleteWindowFail ==
    /\ r_pc = "delete"
    /\ r_pc' = "failed"
    /\ r_failed_at' = "delete"
    /\ last' = Ended(FALSE, {})
    /\ UNCHANGED <<dag_runs, response, now, customers, crm_customers, CRM_WATERMARK, extract_vars, late,
                   since_read, upserts, changed, telemetry_events, user_daily_telemetry,
                   days_back, start_dt, end_dt, refreshes, today, mart_start>>

\* cli.execute(insert_sql, ...): INSERT INTO ... SELECT ... GROUP BY ...
InsertAggregates ==
    /\ r_pc = "insert"
    /\ \E j \in JoinChoices(crm_customers) :
          user_daily_telemetry' =
              user_daily_telemetry \cup Recompute(telemetry_events, j, start_dt, end_dt, now)
    /\ r_pc' = "done"
    /\ last' = Ended(TRUE, EmptiedDates)
    /\ UNCHANGED <<dag_runs, response, now, customers, crm_customers, CRM_WATERMARK, extract_vars, late,
                   since_read, upserts, changed, telemetry_events, days_back, start_dt, end_dt,
                   refreshes, r_failed_at, today, mart_start>>

\* The INSERT raises.
InsertAggregatesFail ==
    /\ r_pc = "insert"
    /\ r_pc' = "failed"
    /\ r_failed_at' = "insert"
    /\ last' = Ended(FALSE, EmptiedDates)
    /\ UNCHANGED <<dag_runs, response, now, customers, crm_customers, CRM_WATERMARK, extract_vars, late,
                   since_read, upserts, changed, telemetry_events, user_daily_telemetry,
                   days_back, start_dt, end_dt, refreshes, today, mart_start>>

NextExtract ==
    \/ \E d \in MinuteSteps : Tick(d)
    \/ \E c \in Customers, p \in Profiles : CrmUpsert(c, p)
    \/ ReadWatermark
    \/ ReadWatermarkFail
    \/ QuerySource
    \/ QuerySourceFail
    \/ InsertRows
    \/ InsertRowsFail
    \/ SetWatermark
    \/ SetWatermarkFail

SpecExtract == Init /\ [][NextExtract]_vars

\* Contents of bionicpro.crm_customers that extract_load_crm leaves behind:
\* one customer extracted before and after a change of its name (and no
\* row of the other), two customers.
CopyChoices ==
    LET ivanov == CHOOSE p \in Profiles : p.country = "RU"
        petrov == CHOOSE p \in Profiles : p.country = "DE"
        t == StartDay * DayMinutes
    IN  { <<CustomerRow("c1", ivanov, t), CustomerRow("c1", petrov, t)>>,
          <<CustomerRow("c1", ivanov, t), CustomerRow("c2", petrov, t)>> }

InitMart == \E copy \in CopyChoices : InitWith(copy)

NextMart ==
    \/ \E d \in MinuteSteps : Tick(d)
    \/ TickDay
    \/ \E c \in Customers, p \in Prostheses, lag \in TelemetryLags, v \in Payloads :
          IngestTelemetry(c, p, lag, v)
    \/ \E db \in DaysBackValues : ComputeWindow(db)
    \/ DeleteWindow
    \/ DeleteWindowFail
    \/ InsertAggregates
    \/ InsertAggregatesFail

SpecMart == InitMart /\ [][NextMart]_vars

\* ----------------------------------------------------------- backend/app.py
\* status.HTTP_401_UNAUTHORIZED, status.HTTP_403_FORBIDDEN, status_code=404,
\* the status of a response_model answer, and the status of an unhandled
\* exception.
HTTP_401_UNAUTHORIZED == 401
HTTP_403_FORBIDDEN == 403
HTTP_404_NOT_FOUND == 404
HTTP_200_OK == 200
HTTP_500_INTERNAL_SERVER_ERROR == 500

PROTHETIC_ROLE == "prothetic_user"

\* USERNAME_TO_CUSTOMER_ID, and its .get(): <<>> stands for None.
USERNAME_TO_CUSTOMER_ID ==
    [u \in {"prothetic1", "prothetic2", "prothetic3"} |->
        CASE u = "prothetic1" -> "c1"
          [] u = "prothetic2" -> "c2"
          [] u = "prothetic3" -> "c3"]

MappedCid(username) ==
    IF username \in DOMAIN USERNAME_TO_CUSTOMER_ID
    THEN <<USERNAME_TO_CUSTOMER_ID[username]>>
    ELSE <<>>

\* An access token: the number of its dot-separated parts and the claims of
\* its payload ("" for a claim that is missing).
Jwt(u, sub, roles) ==
    [empty |-> FALSE, parts |-> 3, preferred_username |-> u, sub |-> sub, roles |-> roles]

EmptyToken ==
    [empty |-> TRUE, parts |-> 0, preferred_username |-> "", sub |-> "", roles |-> {}]

MalformedToken ==
    [empty |-> FALSE, parts |-> 1, preferred_username |-> "", sub |-> "", roles |-> {}]

\* The header Authorization: "<scheme> <token>", or none.
Header(scheme, tok) == [present |-> TRUE, scheme |-> scheme, token |-> tok]

NoHeader == [present |-> FALSE, scheme |-> "", token |-> EmptyToken]

\* The values of Authorization the callers send.
Authorizations ==
    { NoHeader,
      Header("Basic", Jwt("prothetic1", "", {PROTHETIC_ROLE})),
      Header("Bearer", EmptyToken),
      Header("bearer", MalformedToken),
      Header("Bearer", Jwt("", "", {PROTHETIC_ROLE})),
      Header("bearer", Jwt("", "prothetic2", {PROTHETIC_ROLE, "offline_access"})) }
    \cup { Header("Bearer", Jwt(u, "", {PROTHETIC_ROLE})) :
              u \in {"prothetic1", "prothetic2", "prothetic3", "stranger"} }
    \cup { Header("Bearer", Jwt("prothetic1", "", {"offline_access"})) }

\* The values of the query parameter customer_id: <<>> stands for None.
Queries == {<<>>, <<"c1">>, <<"c2">>}

\* str.lower() of the scheme.
Lower(scheme) ==
    CASE scheme = "Bearer" -> "bearer"
      [] scheme = "Basic" -> "basic"
      [] OTHER -> scheme

\* get_current_user: the user of the token, or the exception it raises.
GetCurrentUser(authorization) ==
    LET token == authorization.token
        username == IF token.preferred_username # "" THEN token.preferred_username
                    ELSE token.sub
    IN  IF ~authorization.present
        THEN [ok |-> FALSE, username |-> "", roles |-> {},
              error |-> HTTPException(HTTP_401_UNAUTHORIZED, "Missing Authorization header")]
        ELSE IF Lower(authorization.scheme) # "bearer"
        THEN [ok |-> FALSE, username |-> "", roles |-> {},
              error |-> HTTPException(HTTP_401_UNAUTHORIZED, "Invalid Authorization header")]
        ELSE IF token.empty
        THEN [ok |-> FALSE, username |-> "", roles |-> {},
              error |-> HTTPException(HTTP_401_UNAUTHORIZED, "Empty access token")]
        ELSE IF token.parts # 3
        THEN [ok |-> FALSE, username |-> "", roles |-> {},
              error |-> HTTPException(HTTP_401_UNAUTHORIZED, "Invalid access token")]
        ELSE IF username = ""
        THEN [ok |-> FALSE, username |-> "", roles |-> {},
              error |-> HTTPException(HTTP_401_UNAUTHORIZED, "Token has no username")]
        ELSE [ok |-> TRUE, username |-> username, roles |-> token.roles, error |-> NoResponse]

\* The check of the query parameter left out.
OtherCustomerRequestedNever(customer_id, mapped_cid) == FALSE

\* customer_id is not None and customer_id != mapped_cid
OtherCustomerRequested(customer_id, mapped_cid) ==
    customer_id # <<>> /\ customer_id # mapped_cid

\* The exception get_report raises before it reads the mart, if any.
Refusal(current_user, customer_id) ==
    IF PROTHETIC_ROLE \notin current_user.roles
    THEN <<HTTPException(HTTP_403_FORBIDDEN, "Report access is allowed only for prosthetic users")>>
    ELSE IF MappedCid(current_user.username) = <<>>
    THEN <<HTTPException(HTTP_403_FORBIDDEN, "No report is bound to current user")>>
    ELSE IF OtherCustomerRequested(customer_id, MappedCid(current_user.username))
    THEN <<HTTPException(HTTP_403_FORBIDDEN, "Forbidden: cannot access other user's report")>>
    ELSE <<>>

\* The order of prosthesis_id as strings.
ProsthesisRank(p) == CASE p = "p1" -> 1 [] p = "p2" -> 2 [] OTHER -> 3

\* SELECT ... FROM bionicpro.user_daily_telemetry WHERE customer_id = %(cid)s
\* ORDER BY event_date, prosthesis_id: every order of the rows the clause allows.
SelectReportRows(mart, cid) ==
    LET S == {r \in mart : r.customer_id = cid}
    IN  {s \in [1..Cardinality(S) -> S] :
            /\ \A i, j \in DOMAIN s : i # j => s[i] # s[j]
            /\ \A i, j \in DOMAIN s : i < j =>
                  \/ s[i].event_date < s[j].event_date
                  \/ /\ s[i].event_date = s[j].event_date
                     /\ ProsthesisRank(s[i].prosthesis_id) <= ProsthesisRank(s[j].prosthesis_id)}

\* DailyTelemetry(...) of one row.
DailyTelemetry(r) ==
    [event_date |-> r.event_date, prosthesis_id |-> r.prosthesis_id, events |-> r.events,
     err_events |-> r.err_events, avg_response_ms |-> r.avg_response_ms,
     p95_response_ms |-> r.p95_response_ms, avg_battery_level |-> r.avg_battery_level]

\* The answer of get_report for the rows it read.
UserReport(rs) ==
    IF rs = <<>>
    THEN HTTPException(HTTP_404_NOT_FOUND, "Report not found for given customer_id")
    ELSE [status |-> HTTP_200_OK, detail |-> "",
          body |-> [customer_id |-> rs[1].customer_id, full_name |-> rs[1].full_name,
                    country |-> rs[1].country,
                    days |-> [i \in DOMAIN rs |-> DailyTelemetry(rs[i])]]]

\* GET /reports with the header authorization and the parameter customer_id.
GetReport(authorization, customer_id) ==
    LET current_user == GetCurrentUser(authorization)
    IN  /\ IF ~current_user.ok
           THEN response' = current_user.error
           ELSE IF Refusal(current_user, customer_id) # <<>>
           THEN response' = Refusal(current_user, customer_id)[1]
           ELSE \E rs \in SelectReportRows(user_daily_telemetry,
                                           MappedCid(current_user.username)[1]) :
                    response' = UserReport(rs)
        /\ UNCHANGED <<dag_runs, now, customers, crm_customers, CRM_WATERMARK, extract_vars, late,
                       since_read, upserts, changed, mart_vars>>

\* get_ch_client() or client.execute raises in a call that was not refused.
GetReportFail(authorization, customer_id) ==
    /\ GetCurrentUser(authorization).ok
    /\ Refusal(GetCurrentUser(authorization), customer_id) = <<>>
    /\ response' = HTTPException(HTTP_500_INTERNAL_SERVER_ERROR, "Internal Server Error")
    /\ UNCHANGED <<dag_runs, now, customers, crm_customers, CRM_WATERMARK, extract_vars, late,
                   since_read, upserts, changed, mart_vars>>

\* The telemetry that fills the mart get_report reads: its payload is of no
\* concern to get_report, which passes the aggregates on as they are.
ReportPayloads == {v \in Payloads : v.is_error = 0}

\* get_report called at any time while refresh_mart, with the default
\* days_back, maintains the mart of one day.
NextReport ==
    \/ \E c \in Customers, p \in Prostheses, lag \in TelemetryLags, v \in ReportPayloads :
          IngestTelemetry(c, p, lag, v)
    \/ ComputeWindow(AGG_DAYS_BACK)
    \/ DeleteWindow
    \/ InsertAggregates
    \/ \E a \in Authorizations, q \in Queries : GetReport(a, q)
    \/ \E a \in Authorizations, q \in Queries : GetReportFail(a, q)

SpecReport == InitMart /\ [][NextReport]_vars

\* -------------------------------------------------------------- the DAG
\* max_active_runs=1
max_active_runs == 1
\* default_args: "retries": 1
retries == 1

\* ensure_schema() >> ensure_crm_db_and_table() >> seed_crm()
\*   >> extract_load_crm() >> seed_telemetry() >> refresh_mart() >> done_marker()
TaskChain ==
    <<"ensure_schema", "ensure_crm_db_and_table", "seed_crm", "extract_load_crm",
      "seed_telemetry", "refresh_mart", "done_marker">>

\* The position of a task in the chain.
TaskIndex(task) == CHOOSE k \in DOMAIN TaskChain : TaskChain[k] = task

\* Every task with the trigger rule that @task has when none is given.
TriggerRuleDefault(task) == "all_success"

\* @task(trigger_rule=TriggerRule.ALL_DONE) on done_marker, the default
\* (all_success) on the other tasks.
TriggerRule(task) == IF task = "done_marker" THEN "all_done" ELSE "all_success"

\* The states in which a task instance is finished.
FinishedStates == {"success", "failed", "upstream_failed"}

\* A DAG run as it is created: queued, no task instance has a state;
\* try_number is that of the task instance in flight.
NewDagRun ==
    [state |-> "queued", ti |-> [k \in DOMAIN TaskChain |-> "none"], try_number |-> 0]

\* The DAG runs in state running.
ActiveRuns(runs_) == {r \in DOMAIN runs_ : runs_[r].state = "running"}

\* A queued run started whatever the number of running runs.
MayStartRunAlways(runs_) == TRUE

\* The scheduler starts a queued run only below max_active_runs.
MayStartRun(runs_) == Cardinality(ActiveRuns(runs_)) < max_active_runs

\* The trigger rule of task k of a run allows the task to start.
Triggered(run, k) ==
    IF k = 1 THEN TRUE
    ELSE IF TriggerRule(TaskChain[k]) = "all_done"
         THEN run.ti[k - 1] \in FinishedStates
         ELSE run.ti[k - 1] = "success"

\* The trigger rule of task k of a run can no longer be met.
Untriggerable(run, k) ==
    /\ k > 1
    /\ TriggerRule(TaskChain[k]) = "all_success"
    /\ run.ti[k - 1] \in {"failed", "upstream_failed"}

PipelineUnchanged ==
    UNCHANGED <<now, customers, crm_customers, CRM_WATERMARK, extract_vars, late,
                since_read, upserts, changed, mart_vars, response>>

\* The schedule ("15 * * * *") or a manual trigger creates a DAG run.
CreateDagRun ==
    /\ Len(dag_runs) < MaxDagRuns
    /\ dag_runs' = Append(dag_runs, NewDagRun)
    /\ PipelineUnchanged

\* The scheduler moves a queued run to running.
StartDagRun(r) ==
    /\ dag_runs[r].state = "queued"
    /\ MayStartRun(dag_runs)
    /\ dag_runs' = [dag_runs EXCEPT ![r].state = "running"]
    /\ PipelineUnchanged

\* A task instance of a running run starts its first try or its retry.
StartTask(r, k) ==
    /\ dag_runs[r].state = "running"
    /\ dag_runs[r].ti[k] \in {"none", "up_for_retry"}
    /\ Triggered(dag_runs[r], k)
    /\ dag_runs' = [dag_runs EXCEPT ![r].ti[k] = "running", ![r].try_number = @ + 1]
    /\ PipelineUnchanged

\* The callable of the task returns.
TaskSucceeds(r, k) ==
    /\ dag_runs[r].ti[k] = "running"
    /\ dag_runs' = [dag_runs EXCEPT ![r].ti[k] = "success", ![r].try_number = 0]
    /\ PipelineUnchanged

\* The callable of the task raises: retried while tries are left.
TaskFails(r, k) ==
    /\ dag_runs[r].ti[k] = "running"
    /\ dag_runs' =
          IF dag_runs[r].try_number <= retries
          THEN [dag_runs EXCEPT ![r].ti[k] = "up_for_retry"]
          ELSE [dag_runs EXCEPT ![r].ti[k] = "failed", ![r].try_number = 0]
    /\ PipelineUnchanged

\* The scheduler marks a task whose trigger rule can no longer be met.
MarkUpstreamFailed(r, k) ==
    /\ dag_runs[r].state = "running"
    /\ dag_runs[r].ti[k] = "none"
    /\ Untriggerable(dag_runs[r], k)
    /\ dag_runs' = [dag_runs EXCEPT ![r].ti[k] = "upstream_failed"]
    /\ PipelineUnchanged

\* The scheduler ends a run whose task instances are all finished: the
\* state of the run is that of its leaf task, done_marker.
FinishDagRun(r) ==
    /\ dag_runs[r].state = "running"
    /\ \A k \in DOMAIN TaskChain : dag_runs[r].ti[k] \in FinishedStates
    /\ dag_runs' = [dag_runs EXCEPT ![r].state =
                        IF dag_runs[r].ti[Len(TaskChain)] = "success" THEN "success"
                        ELSE "failed"]
    /\ PipelineUnchanged

NextPipeline ==
    \/ CreateDagRun
    \/ \E r \in DOMAIN dag_runs : StartDagRun(r)
    \/ \E r \in DOMAIN dag_runs, k \in DOMAIN TaskChain : StartTask(r, k)
    \/ \E r \in DOMAIN dag_runs, k \in DOMAIN TaskChain : TaskSucceeds(r, k)
    \/ \E r \in DOMAIN dag_runs, k \in DOMAIN TaskChain : TaskFails(r, k)
    \/ \E r \in DOMAIN dag_runs, k \in DOMAIN TaskChain : MarkUpstreamFailed(r, k)
    \/ \E r \in DOMAIN dag_runs : FinishDagRun(r)

SpecPipeline == Init /\ [][NextPipeline]_vars

\* ======================================================================
\* Properties of extract_load_crm, checked under SpecExtract
\* ======================================================================

\* C1: the persisted CRM_WATERMARK never decreases, whatever the runs do
\* (fail at any step, find rows or find none), and the value a run writes
\* is never earlier than the watermark that run read.
WatermarkNonDecreasing ==
    [][/\ Watermark' >= Watermark
       /\ (e_pc = "set" /\ e_pc' = "done") => Watermark' >= wm]_vars

\* C1 witness: a later run has moved an already set watermark forward.
WatermarkMovedForwardAgain ==
    /\ runs >= 2
    /\ e_pc = "done"
    /\ wm_writes = 1
    /\ wm_start # Unset
    /\ IsoParse(CRM_WATERMARK) > IsoParse(wm_start)

\* C2 as stated: when a run has succeeded, every customer its query could
\* see with updated_at <= upper is in crm_customers, also a customer that
\* was committed after an earlier run's read.
NoRecordSkipped ==
    e_pc = "done" =>
        \A s \in seen :
            s.row.updated_at <= upper => s.row \in Range(crm_customers)

\* C2 amended: when a run has succeeded, every customer its query could
\* see with updated_at <= upper has been appended to crm_customers by this
\* run or an earlier one, unless the customer was committed after the
\* source read of a run that set the watermark at or past its updated_at.
NoTimelyRecordSkipped ==
    e_pc = "done" =>
        \A s \in seen :
            (s.row.updated_at <= upper /\ ~s.late) => s.row \in Range(crm_customers)

\* C2 witness: a successful later run saw a customer behind its watermark
\* that an earlier run appended, and a late customer that no run appended.
SawAppendedAndLateRecord ==
    /\ runs >= 2
    /\ e_pc = "done"
    /\ \E s, t \in seen :
          /\ ~s.late /\ s.row.updated_at <= wm /\ s.row \in Range(crm_customers)
          /\ t.late /\ t.row.updated_at <= upper /\ t.row \notin Range(crm_customers)

\* C3 as stated: after an attempt of extract_load_crm, wherever it failed,
\* the batch is appended to crm_customers exactly if the watermark was
\* written, and the watermark written is the one that matches the batch.
BatchAndWatermarkAgree ==
    e_pc \in {"done", "failed"} =>
        \/ /\ crm_customers = copy_start \o rows
           /\ wm_writes = 1
           /\ CRM_WATERMARK = NewWatermark(rows, upper)
        \/ /\ crm_customers = copy_start
           /\ wm_writes = 0
           /\ CRM_WATERMARK = wm_start

\* C4: a run whose source read or warehouse append raised has failed and
\* left CRM_WATERMARK as it was when the run started; a run writes the
\* watermark at most once, and only as the step that completes it.
WatermarkWrittenOnlyOnSuccess ==
    /\ [](failed_at \in {"query", "insert"} =>
            e_pc = "failed" /\ CRM_WATERMARK = wm_start /\ wm_writes = 0)
    /\ [](wm_writes <= 1)
    /\ [][(CRM_WATERMARK' # CRM_WATERMARK \/ wm_writes' > wm_writes) =>
            (e_pc = "set" /\ e_pc' = "done" /\ failed_at = "none")]_vars

\* C4 witness: a run failed at the append while the watermark was set
\* by an earlier run, and the watermark is still that one.
AppendFailedWatermarkKept ==
    /\ e_pc = "failed"
    /\ failed_at = "insert"
    /\ wm_start # Unset
    /\ CRM_WATERMARK = wm_start

\* C10 as stated: a run that read a watermark later than its own now_
\* raises instead of going on to query the source and set the watermark.
FutureWatermarkSurfaced ==
    e_pc \in {"query", "insert", "set", "done"} => wm <= now_

\* The watermark an instance found when it started, as a time.
WatermarkAtStart == IF wm_start = Unset THEN IsoParse(EpochSentinel) ELSE IsoParse(wm_start)

\* The rows an instance has appended to crm_customers, in order.
Appended == SubSeq(crm_customers, Len(copy_start) + 1, Len(crm_customers))

\* The rows of customers at the instance's source read.
SourceAtRead == {s.row : s \in seen}

\* C11: when two consecutive runs of extract_load_crm have both succeeded
\* and no customer changed between their source reads, crm_customers is
\* what the first run found followed by the batch of the first and the
\* batch of the second, no row is in both batches or twice in one, and
\* when the first run started a pipeline that had never extracted,
\* crm_customers holds exactly the rows of the source, each once.
SecondRunAppendsNoRowAgain ==
    (e_pc = "done" /\ prev.ok) =>
        LET found == SubSeq(copy_start, 1, Len(copy_start) - prev.n_rows)
            first == SubSeq(copy_start, Len(copy_start) - prev.n_rows + 1, Len(copy_start))
            both == first \o Appended
        IN  /\ crm_customers = found \o both
            /\ Len(first) = prev.n_rows
            /\ \A i, j \in DOMAIN both : i # j => both[i] # both[j]
            /\ Range(first) \cap Range(Appended) = {}
            /\ prev.fresh =>
                  /\ Range(crm_customers) = SourceAtRead
                  /\ Len(crm_customers) = Cardinality(SourceAtRead)

\* C11 witness: the second of two successful runs of a fresh pipeline has
\* ended; the source held two customers with distinct updated_at throughout.
TwoRunsOverFixedSource ==
    /\ e_pc = "done"
    /\ prev.ok
    /\ prev.fresh
    /\ prev.n_rows = 2
    /\ Len(crm_customers) = 2
    /\ crm_customers[1].updated_at # crm_customers[2].updated_at

\* C15: a successful run has appended to crm_customers, after the rows it
\* found there, exactly the rows the source held at its read with
\* W < updated_at <= now_ + 5 minutes, each once, W being the watermark the
\* run found: a row with updated_at = W is not appended, a row with
\* updated_at = now_ + 5 minutes is.
AppendsExactlyTheWindow ==
    e_pc = "done" =>
        LET due == {r \in SourceAtRead :
                       /\ WatermarkAtStart < r.updated_at
                       /\ r.updated_at <= now_ + OverlapMinutes}
        IN  /\ SubSeq(crm_customers, 1, Len(copy_start)) = copy_start
            /\ Range(Appended) = due
            /\ Len(Appended) = Cardinality(due)

\* C15 witness: a successful run read a source that held a row with
\* updated_at = W, which it left out, and a row with
\* updated_at = now_ + 5 minutes, which it appended.
WindowEndsBothMet ==
    /\ e_pc = "done"
    /\ wm_start # Unset
    /\ \E r \in SourceAtRead :
          r.updated_at = WatermarkAtStart /\ r \notin Range(Appended)
    /\ \E r \in SourceAtRead :
          r.updated_at = now_ + OverlapMinutes /\ r \in Range(Appended)

\* C16: after a successful run CRM_WATERMARK is the isoformat of the
\* greatest updated_at of the rows the run appended, and of
\* now_ + 5 minutes when it appended none.
WatermarkIsBatchMaxOrUpper ==
    e_pc = "done" =>
        CRM_WATERMARK =
            IF Appended # <<>>
            THEN IsoFormat(MaxOf({Appended[i].updated_at : i \in DOMAIN Appended}))
            ELSE IsoFormat(now_ + OverlapMinutes)

\* C16 witness: a run that appended nothing has set the watermark to its
\* upper, past the watermark that the run before it took from its batch.
EmptyRunAfterBatchRun ==
    /\ e_pc = "done"
    /\ prev.ok
    /\ prev.n_rows > 0
    /\ wm_start = IsoFormat(MaxUpdated(copy_start))
    /\ Appended = <<>>
    /\ IsoParse(CRM_WATERMARK) = now_ + OverlapMinutes
    /\ IsoParse(CRM_WATERMARK) > IsoParse(wm_start)

\* ======================================================================
\* Properties of refresh_mart, checked under SpecMart
\* ======================================================================

\* The rows of the mart m with event_date in [lo, hi).
RowsIn(m, lo, hi) == {r \in m : r.event_date >= lo /\ r.event_date < hi}

\* The (event_date, customer_id, prosthesis_id) of the rows of m.
KeysOf(m) == {<<r.event_date, r.customer_id, r.prosthesis_id>> : r \in m}

\* The groups of the telemetry events of the dates in [lo, hi).
TelemetryKeys(tel, lo, hi) ==
    {GroupKey(ev) : ev \in {x \in BagToSet(tel) : ToDate(x.ts) >= lo /\ ToDate(x.ts) < hi}}

\* An instance of refresh_mart has succeeded and the tables it read are
\* still as it read them.
JustRefreshed ==
    /\ r_pc = "done"
    /\ BagCardinality(telemetry_events) = last.n_events
    /\ Len(crm_customers) = last.n_copy

\* crm_customers holds rows of customer c that differ in full_name or country.
Ambiguous(c) ==
    \E r1, r2 \in Range(crm_customers) :
        /\ r1.customer_id = c
        /\ r2.customer_id = c
        /\ <<r1.full_name, r1.country>> # <<r2.full_name, r2.country>>

\* A mart row without the columns that the time and the join decide.
Stable(r) ==
    [r EXCEPT !.last_update = 0,
              !.full_name = IF Ambiguous(r.customer_id) THEN "" ELSE @,
              !.country = IF Ambiguous(r.customer_id) THEN "" ELSE @]

RefreshCovers(lo, hi) ==
    /\ r_pc = "insert" =>
          user_daily_telemetry = mart_start \ RowsIn(mart_start, lo, hi)
    /\ JustRefreshed =>
          /\ user_daily_telemetry \ RowsIn(user_daily_telemetry, lo, hi)
                = mart_start \ RowsIn(mart_start, lo, hi)
          /\ KeysOf(RowsIn(user_daily_telemetry, lo, hi))
                = TelemetryKeys(telemetry_events, lo, hi)

\* C6 as stated: refresh_mart deletes and recomputes exactly the dates d
\* with today - days_back <= d < today + 1.
WindowFromTodayMinusDaysBack == RefreshCovers(today - days_back, today + 1)

\* C6 amended: refresh_mart deletes and recomputes exactly the dates d with
\* today + 1 - days_back <= d < today + 1: the days_back days that end with
\* today, and no date at all when days_back = 0.
WindowOfDaysBackDays == RefreshCovers(today + 1 - days_back, today + 1)

\* C6 witness: a refresh_mart has succeeded that replaced rows of its
\* window and kept a row of the date today - days_back.
RefreshKeptRowOfEarliestClaimedDate ==
    /\ JustRefreshed
    /\ days_back >= 1
    /\ \E r \in mart_start :
          r.event_date = today - days_back /\ r \in user_daily_telemetry
    /\ \E r \in user_daily_telemetry :
          r.event_date > today - days_back /\ r \notin mart_start

FailedRefreshRepaired ==
    JustRefreshed =>
        \A d \in last.gap :
            KeysOf(RowsIn(user_daily_telemetry, d, d + 1))
                = TelemetryKeys(telemetry_events, d, d + 1)

SameInputsSameRows ==
    (r_pc = "done" /\ last.repeat) =>
        {[r EXCEPT !.last_update = 0] : r \in RowsIn(user_daily_telemetry, start_dt, end_dt)}
            = {[r EXCEPT !.last_update = 0] : r \in RowsIn(mart_start, start_dt, end_dt)}

\* The events of telemetry_events of the group k, as a bag.
EventsOfGroup(k) ==
    [ev \in {x \in BagToSet(telemetry_events) : GroupKey(x) = k} |->
        CopiesIn(ev, telemetry_events)]

\* The sum of the column col over the rows of the bag B.
RECURSIVE BagTotal(_, _)
BagTotal(B, col) ==
    IF DOMAIN B = {} THEN 0
    ELSE LET x == CHOOSE y \in DOMAIN B : TRUE
         IN  B[x] * x[col] + BagTotal([y \in DOMAIN B \ {x} |-> B[y]], col)

\* The mart rows of the group k.
RowsOfGroup(k) ==
    {r \in user_daily_telemetry : <<r.event_date, r.customer_id, r.prosthesis_id>> = k}

\* C17: when refresh_mart has succeeded, every (event_date, customer_id,
\* prosthesis_id) with telemetry of a date of the window has one mart row;
\* its events is the number of these events, its err_events the sum of
\* their is_error and its avg_response_ms the sum of their response_ms
\* divided by their number.
AggregatesOfTheGroup ==
    JustRefreshed =>
        \A k \in TelemetryKeys(telemetry_events, start_dt, end_dt) :
            LET n == BagCardinality(EventsOfGroup(k))
            IN  /\ Cardinality(RowsOfGroup(k)) = 1
                /\ \A r \in RowsOfGroup(k) :
                      /\ r.events = n
                      /\ r.err_events = BagTotal(EventsOfGroup(k), "is_error")
                      /\ r.avg_response_ms[2] > 0
                      /\ r.avg_response_ms[1] * n
                            = BagTotal(EventsOfGroup(k), "response_ms") * r.avg_response_ms[2]

\* C17 witness: refresh_mart has aggregated two events of one group with
\* is_error 0 and 1 and response_ms 100 and 300 into events = 2,
\* err_events = 1, avg_response_ms = 200.
TwoEventsAveraged ==
    /\ JustRefreshed
    /\ \E r \in RowsIn(user_daily_telemetry, start_dt, end_dt) :
          /\ r.events = 2
          /\ r.err_events = 1
          /\ r.avg_response_ms = <<200, 1>>
          /\ {ev.response_ms : ev \in DOMAIN EventsOfGroup(<<r.event_date, r.customer_id, r.prosthesis_id>>)}
                = {100, 300}

\* crm_customers holds no row of customer c.
Unmatched(c) == \A r \in Range(crm_customers) : r.customer_id # c

\* C18: when refresh_mart has succeeded, every (event_date, customer_id,
\* prosthesis_id) with telemetry of a date of the window whose customer has
\* no row in crm_customers has a mart row, and the full_name and country
\* of its mart rows are empty; the join of the INSERT has a result also
\* when it meets such a customer.
UnmatchedCustomerKept ==
    /\ JustRefreshed =>
          \A k \in TelemetryKeys(telemetry_events, start_dt, end_dt) :
              Unmatched(k[2]) =>
                  /\ RowsOfGroup(k) # {}
                  /\ \A r \in RowsOfGroup(k) : r.full_name = "" /\ r.country = ""
    /\ r_pc = "insert" => JoinChoices(crm_customers) # {}

\* C18 witness: refresh_mart has succeeded and written a row with empty
\* full_name and country for a customer without a row in crm_customers.
UnmatchedCustomerRowWritten ==
    /\ JustRefreshed
    /\ \E r \in RowsIn(user_daily_telemetry, start_dt, end_dt) :
          /\ Unmatched(r.customer_id)
          /\ r.full_name = ""
          /\ r.country = ""
          /\ r \notin mart_start

TokenUsername(a) ==
    IF a.token.preferred_username # "" THEN a.token.preferred_username ELSE a.token.sub

\* The header a carries a bearer token with a username.
Authenticated(a) ==
    /\ a.present
    /\ a.scheme \in {"Bearer", "bearer"}
    /\ ~a.token.empty
    /\ a.token.parts = 3
    /\ TokenUsername(a) # ""

\* The caller of a may read the report the parameter q asks for: it has
\* the role, its username is mapped to a customer, and q names no other.
Entitled(a, q) ==
    /\ Authenticated(a)
    /\ PROTHETIC_ROLE \in a.token.roles
    /\ TokenUsername(a) \in DOMAIN USERNAME_TO_CUSTOMER_ID
    /\ q \in {<<>>, <<USERNAME_TO_CUSTOMER_ID[TokenUsername(a)]>>}

\* C19: get_report answers an authenticated caller without the role
\* prothetic_user, with a username that is mapped to no customer, or with a
\* parameter customer_id other than the mapped one with 403 and no mart
\* data; only an entitled caller gets mart data, and then the rows of the
\* customer mapped to its username and no others, whatever customer_id is.
ReportOnlyOfMappedCustomer ==
    [][\A a \in Authorizations, q \in Queries :
          GetReport(a, q) =>
              /\ (Authenticated(a) /\ ~Entitled(a, q)) =>
                    /\ response'.status = HTTP_403_FORBIDDEN
                    /\ response'.body = NoBody
              /\ response'.body # NoBody => Entitled(a, q)
              /\ Entitled(a, q) =>
                    LET cid == USERNAME_TO_CUSTOMER_ID[TokenUsername(a)]
                        own == {r \in user_daily_telemetry : r.customer_id = cid}
                        days == response'.body.days
                    IN  IF own = {}
                        THEN response'.status = HTTP_404_NOT_FOUND /\ response'.body = NoBody
                        ELSE /\ response'.status = HTTP_200_OK
                             /\ response'.body.customer_id = cid
                             /\ Range(days) = {DailyTelemetry(r) : r \in own}
                             /\ Len(days) = Cardinality(own)]_vars

\* C19 witness: get_report has refused a caller that asked for another
\* customer's report while the mart held rows of both customers.
OtherCustomersReportRefused ==
    /\ response.status = HTTP_403_FORBIDDEN
    /\ response.detail = "Forbidden: cannot access other user's report"
    /\ \A c \in Customers : \E r \in user_daily_telemetry : r.customer_id = c

\* ======================================================================
\* Properties of the DAG, checked under SpecPipeline
\* ======================================================================

\* Task instance k of run r has started: it runs, waits for its retry or
\* has ended after running.
Started(r, k) == dag_runs[r].ti[k] \in {"running", "up_for_retry", "success", "failed"}

\* Task instance k of run r is in flight: between the start of a try and
\* the end of its last try.
InFlight(r, k) == dag_runs[r].ti[k] \in {"running", "up_for_retry"}

\* C12: at most one DAG run is running at any time, and task instances are
\* in flight only in that run: while an extract_load_crm is between its
\* read and its write of CRM_WATERMARK no extract_load_crm of another run is
\* in flight, and no two refresh_mart are in flight together.
OneRunInFlight ==
    /\ Cardinality(ActiveRuns(dag_runs)) <= 1
    /\ \A r1, r2 \in DOMAIN dag_runs, k1, k2 \in DOMAIN TaskChain :
          (InFlight(r1, k1) /\ InFlight(r2, k2)) => r1 = r2
    /\ \A r \in DOMAIN dag_runs, k \in DOMAIN TaskChain :
          InFlight(r, k) => dag_runs[r].state = "running"

\* C12 witness: extract_load_crm of one run is running while another run,
\* already created, waits in the queue.
SecondRunWaitsForExtract ==
    \E r1, r2 \in DOMAIN dag_runs :
        /\ dag_runs[r1].ti[TaskIndex("extract_load_crm")] = "running"
        /\ dag_runs[r2].state = "queued"

\* C13: in every run a task other than done_marker has started only if the
\* task before it in the chain has succeeded (so refresh_mart has started
\* only if extract_load_crm has succeeded); done_marker has started only if
\* every other task is finished, and every run that has ended has run
\* done_marker, whatever became of the tasks before it.
StepsInOrderMarkerLast ==
    \A r \in DOMAIN dag_runs :
        /\ \A k \in DOMAIN TaskChain :
              (Started(r, k) /\ k > 1 /\ TaskChain[k] # "done_marker") =>
                  dag_runs[r].ti[k - 1] = "success"
        /\ Started(r, TaskIndex("refresh_mart")) =>
              /\ dag_runs[r].ti[TaskIndex("ensure_schema")] = "success"
              /\ dag_runs[r].ti[TaskIndex("extract_load_crm")] = "success"
        /\ Started(r, TaskIndex("done_marker")) =>
              \A k \in DOMAIN TaskChain :
                  TaskChain[k] # "done_marker" => dag_runs[r].ti[k] \in FinishedStates
        /\ dag_runs[r].state \in {"success", "failed"} =>
              /\ Started(r, TaskIndex("done_marker"))
              /\ dag_runs[r].ti[TaskIndex("done_marker")] \in {"success", "failed"}

\* C13 witness: a run has ended in which extract_load_crm failed (after its
\* retry), refresh_mart never started and done_marker ran.
MarkerRanAfterFailedExtract ==
    \E r \in DOMAIN dag_runs :
        /\ dag_runs[r].state \in {"success", "failed"}
        /\ dag_runs[r].ti[TaskIndex("extract_load_crm")] = "failed"
        /\ ~Started(r, TaskIndex("refresh_mart"))
        /\ dag_runs[r].ti[TaskIndex("done_marker")] = "success"

\* ======================================================================
\* What refresh_mart leaves alone, checked under SpecMart
\* ======================================================================

\* The rows of the mart m with event_date outside [lo, hi).
RowsOutside(m, lo, hi) == m \ RowsIn(m, lo, hi)

\* C21: every step of an instance of refresh_mart, whether it returns or
\* raises, leaves the mart rows with event_date outside [start_dt, end_dt),
\* telemetry_events, crm_customers and CRM_WATERMARK as they were; so from
\* its DELETE on, and after it has succeeded or failed, the rows outside
\* its window are those the instance found.
RefreshLeavesTheRestAlone ==
    /\ [](r_pc \in {"insert", "done", "failed"} =>
            RowsOutside(user_daily_telemetry, start_dt, end_dt)
                = RowsOutside(mart_start, start_dt, end_dt))
    /\ [][(r_pc' # r_pc) =>
            /\ RowsOutside(user_daily_telemetry', start_dt', end_dt')
                  = RowsOutside(user_daily_telemetry, start_dt', end_dt')
            /\ telemetry_events' = telemetry_events
            /\ crm_customers' = crm_customers
            /\ CRM_WATERMARK' = CRM_WATERMARK
            /\ customers' = customers]_vars

\* C21 witness: an instance failed at its INSERT after its DELETE had
\* removed rows of its window, and a row of an earlier date is still there.
FailedRefreshKeptEarlierRow ==
    /\ r_pc = "failed"
    /\ r_failed_at = "insert"
    /\ RowsIn(mart_start, start_dt, end_dt) # {}
    /\ RowsOutside(user_daily_telemetry, start_dt, end_dt) # {}
    /\ crm_customers # <<>>
    /\ telemetry_events # EmptyBag

====
